---- MODULE Spec2Model ----
(***************************************************************************)
(* Unit of Work: the transaction lifecycle of go-uow.                      *)
(*                                                                         *)
(* The repository holds two adapters (stdsql, pgxv5) and two revisions of  *)
(* the execution helper RunTxWithResult:                                   *)
(*   "deferred"  the helper that finalizes in a deferred function with     *)
(*               recover() (package uow, *sql.TxOptions)                   *)
(*   "explicit"  the helper that finalizes in straight-line code and wraps *)
(*               lifecycle errors (package uow, TxOptions)                 *)
(* A program is built from one adapter and one helper; Init chooses them.  *)
(*                                                                         *)
(* The database driver (database/sql, pgx, pgxpool) is the environment:    *)
(* every native call succeeds or fails nondeterministically.               *)
(***************************************************************************)
EXTENDS Integers, Sequences, FiniteSets, TLC

\* ------------------------------------------------------------------ bounds
NumCallers == 2      \* concurrent callers of the helpers
PoolSize   == 1      \* connections in the pgxpool
MaxCalls   == 2      \* helper calls started in one behaviour
MaxOps     == 5      \* direct UOW method calls in one behaviour
MaxOpts    == 2      \* options objects the presets hand out in one behaviour

Callers == 1..NumCallers
Conns   == 1..PoolSize

\* isolation levels a client writes into an options object it holds
MutLevels == {"LevelSerializable", "LevelSnapshot"}

Adapters == {"stdsql", "pgxv5"}
Helpers  == {"deferred", "explicit"}

\* ------------------------------------------------------------------ values
NilRes == "nil"                       \* a nil *TReturn
Results == {NilRes, "r1"}             \* what an action may return as result
PanicVals == {"boom"}                 \* values an action may panic with

NoErr == [kind |-> "nil"]
ActionErrs == {[kind |-> "action", id |-> 1]}
AcquireErr == [kind |-> "driver", op |-> "acquire"]   \* pool.Acquire failed
DriverErr(op) == [kind |-> "driver", op |-> op]       \* native call failed
ErrTxDone == [kind |-> "driver", op |-> "txdone"]     \* native call on a finished tx

\* errors.go
ErrTransactionNotStarted == [kind |-> "ErrTransactionNotStarted"]

FailedToRollback(err) == [kind |-> "FailedToRollbackError", Err |-> err]

FailedToCommit(err) == [kind |-> "FailedToCommitError", Err |-> err]

FailedToStartTransaction(err) == [kind |-> "FailedToStartTransactionError", Err |-> err]

\* errors.Join: the non-nil arguments, in order
Join(a, b) == [kind |-> "join", errs |-> SelectSeq(<<a, b>>, LAMBDA e : e # NoErr)]

\* fmt.Errorf(msg + ": %w", err)
Errorf(msg, err) == [kind |-> "wrapError", msg |-> msg, Err |-> err]

\* ------------------------------------------------------------------ state
VARIABLES
    adapter,    \* which adapter the factory is
    helper,     \* which revision of RunTxWithResult is linked
    pc,         \* pc[p]: position of caller p
    api,        \* api[p]: "RunTx" or "RunTxWithResult"
    uow,        \* uow[p]: the UOW object caller p holds
    act,        \* act[p]: outcome of the action (local res/err or panic in flight)
    ret,        \* ret[p]: what the last call of p returned or panicked with
    log,        \* log[p]: collaborator calls made by the current call of p
    txs,        \* txs[p]: native transactions begun through the current UOW of p
    poolHeld,   \* connections checked out of the pool
    started,    \* helper calls started so far
    ops,        \* direct UOW method calls made so far
    reg,        \* reg[p]: the registry caller p last got from its UOW
    optHeap,    \* the options objects handed out by the presets
    optLast     \* the last call on options: its function, argument and result

vars == <<adapter, helper, pc, api, uow, act, ret, log, txs, poolHeld, started, ops,
          reg, optHeap, optLast>>

optVars == <<optHeap, optLast>>

config == <<adapter, helper>>

\* ------------------------------------------------------------------ options values
\* an options value; isNil marks the nil *sql.TxOptions
NilOptions == [isNil |-> TRUE, Isolation |-> "", ReadOnly |-> FALSE]

\* ------------------------------------------------------------------ UOW objects
\* A transaction handle names the caller whose UOW began it and its index
\* among the transactions that UOW began; NoTx is the nil handle.
NoTx == [owner |-> 0, idx |-> 0]

NoRegistry == [tx |-> NoTx]           \* zero value of TRepoRegistry

\* the registry factory binds every repository to the transaction handle
repoRegistryFactory(h) == [tx |-> h]

NoUOW == [made |-> FALSE, tx |-> NoTx, repoRegistry |-> NoRegistry, conn |-> 0, held |-> FALSE]

newSQLUOW == [made |-> TRUE, tx |-> NoTx, repoRegistry |-> NoRegistry, conn |-> 0, held |-> FALSE]

\* held models the pgxpool.Conn wrapper still owning its pool resource
newPgUOW(conn) == [made |-> TRUE, tx |-> NoTx, repoRegistry |-> NoRegistry, conn |-> conn, held |-> TRUE]

\* ------------------------------------------------------------------ native driver
NewTx(t, p) == [owner |-> p, idx |-> Len(t[p]) + 1]

NativeBegin(t, p) == [t EXCEPT ![p] = Append(@, [state |-> "open", finals |-> 0, by |-> {}])]

\* tx.Commit / tx.Rollback reaching the driver transaction h, called by p
NativeFinish(t, h, op, ok, p) ==
    IF t[h.owner][h.idx].state = "open"
    THEN [t EXCEPT ![h.owner][h.idx].state =
                        IF ~ok THEN "failed"
                        ELSE IF op = "commit" THEN "committed" ELSE "rolledback",
                   ![h.owner][h.idx].finals = @ + 1,
                   ![h.owner][h.idx].by = @ \cup {p}]
    ELSE [t EXCEPT ![h.owner][h.idx].finals = @ + 1,
                   ![h.owner][h.idx].by = @ \cup {p}]

NativeErr(t, h, op, ok) ==
    IF t[h.owner][h.idx].state = "open"
    THEN IF ok THEN NoErr ELSE DriverErr(op)
    ELSE ErrTxDone

\* ------------------------------------------------------------------ stdsql adapter
\* Every UOW method yields [err, panic, uow, txs, released]: the returned
\* error, whether the call panicked, the object after the call, the native
\* transactions after the call and the connections given back to the pool.

\* sqlUOWBegin building the registry before the error of BeginTx is tested
sqlUOWBeginEarlyRegistry(u, t, p, ok) ==
    IF ~ok
    THEN [err |-> Errorf("failed to begin transaction", DriverErr("begin")),
          panic |-> FALSE,
          uow |-> [u EXCEPT !.repoRegistry = repoRegistryFactory(NewTx(t, p))],
          txs |-> t, released |-> {}]
    ELSE [err |-> NoErr, panic |-> FALSE,
          uow |-> [u EXCEPT !.tx = NewTx(t, p),
                            !.repoRegistry = repoRegistryFactory(NewTx(t, p))],
          txs |-> NativeBegin(t, p), released |-> {}]

sqlUOWBegin(u, t, p, ok) ==
    IF ~ok
    THEN [err |-> Errorf("failed to begin transaction", DriverErr("begin")),
          panic |-> FALSE, uow |-> u, txs |-> t, released |-> {}]
    ELSE [err |-> NoErr, panic |-> FALSE,
          uow |-> [u EXCEPT !.tx = NewTx(t, p),
                            !.repoRegistry = repoRegistryFactory(NewTx(t, p))],
          txs |-> NativeBegin(t, p), released |-> {}]

sqlUOWCommit(u, t, p, ok) ==
    IF u.tx = NoTx
    THEN [err |-> ErrTransactionNotStarted, panic |-> FALSE,
          uow |-> u, txs |-> t, released |-> {}]
    ELSE [err |-> NativeErr(t, u.tx, "commit", ok), panic |-> FALSE,
          uow |-> u, txs |-> NativeFinish(t, u.tx, "commit", ok, p), released |-> {}]

sqlUOWRollback(u, t, p, ok) ==
    IF u.tx = NoTx
    THEN [err |-> ErrTransactionNotStarted, panic |-> FALSE,
          uow |-> u, txs |-> t, released |-> {}]
    ELSE [err |-> NativeErr(t, u.tx, "rollback", ok), panic |-> FALSE,
          uow |-> u, txs |-> NativeFinish(t, u.tx, "rollback", ok, p), released |-> {}]

\* ------------------------------------------------------------------ pgxv5 adapter
\* u.conn.Release(): gives the connection back once; later calls do nothing
connRelease(u) == IF u.held THEN {u.conn} ELSE {}

\* u.conn.BeginTx on a released pgxpool.Conn dereferences a nil resource
pgUOWBegin(u, t, p, ok) ==
    IF ~u.held
    THEN [err |-> NoErr, panic |-> TRUE, uow |-> u, txs |-> t, released |-> {}]
    ELSE IF ~ok
    THEN [err |-> DriverErr("begin"), panic |-> FALSE,
          uow |-> u, txs |-> t, released |-> {}]
    ELSE [err |-> NoErr, panic |-> FALSE,
          uow |-> [u EXCEPT !.tx = NewTx(t, p),
                            !.repoRegistry = repoRegistryFactory(NewTx(t, p))],
          txs |-> NativeBegin(t, p), released |-> {}]

\* pgUOWCommit releasing the connection after a successful commit only,
\* instead of in a deferred call
pgUOWCommitReleaseOnSuccess(u, t, p, ok) ==
    IF u.tx = NoTx
    THEN [err |-> ErrTransactionNotStarted, panic |-> FALSE,
          uow |-> u, txs |-> t, released |-> {}]
    ELSE IF NativeErr(t, u.tx, "commit", ok) # NoErr
    THEN [err |-> NativeErr(t, u.tx, "commit", ok), panic |-> FALSE,
          uow |-> u, txs |-> NativeFinish(t, u.tx, "commit", ok, p), released |-> {}]
    ELSE [err |-> NoErr, panic |-> FALSE,
          uow |-> [u EXCEPT !.held = FALSE],
          txs |-> NativeFinish(t, u.tx, "commit", ok, p), released |-> connRelease(u)]

pgUOWCommit(u, t, p, ok) ==
    IF u.tx = NoTx
    THEN [err |-> ErrTransactionNotStarted, panic |-> FALSE,
          uow |-> [u EXCEPT !.held = FALSE], txs |-> t, released |-> connRelease(u)]
    ELSE [err |-> NativeErr(t, u.tx, "commit", ok), panic |-> FALSE,
          uow |-> [u EXCEPT !.held = FALSE],
          txs |-> NativeFinish(t, u.tx, "commit", ok, p), released |-> connRelease(u)]

\* pgUOWRollback whose guard returns nil instead of ErrTransactionNotStarted
pgUOWRollbackNilGuard(u, t, p, ok) ==
    IF u.tx = NoTx
    THEN [err |-> NoErr, panic |-> FALSE,
          uow |-> [u EXCEPT !.held = FALSE], txs |-> t, released |-> connRelease(u)]
    ELSE [err |-> NativeErr(t, u.tx, "rollback", ok), panic |-> FALSE,
          uow |-> [u EXCEPT !.held = FALSE],
          txs |-> NativeFinish(t, u.tx, "rollback", ok, p), released |-> connRelease(u)]

pgUOWRollback(u, t, p, ok) ==
    IF u.tx = NoTx
    THEN [err |-> ErrTransactionNotStarted, panic |-> FALSE,
          uow |-> [u EXCEPT !.held = FALSE], txs |-> t, released |-> connRelease(u)]
    ELSE [err |-> NativeErr(t, u.tx, "rollback", ok), panic |-> FALSE,
          uow |-> [u EXCEPT !.held = FALSE],
          txs |-> NativeFinish(t, u.tx, "rollback", ok, p), released |-> connRelease(u)]

\* ------------------------------------------------------------------ the registry of a UOW
\* Access to the registry yields [reg, err, panic]: the registry handed out
\* (NoRegistry when none is), the returned error and whether the call panicked
\* with "transaction not started".
sqlUOWMustRepoRegistry(u) ==
    IF u.tx = NoTx
    THEN [reg |-> NoRegistry, err |-> NoErr, panic |-> TRUE]
    ELSE [reg |-> u.repoRegistry, err |-> NoErr, panic |-> FALSE]

\* pgUOWRepoRegistry without the test of u.tx
pgUOWRepoRegistryNoGuard(u) == [reg |-> u.repoRegistry, err |-> NoErr, panic |-> FALSE]

pgUOWRepoRegistry(u) ==
    IF u.tx = NoTx
    THEN [reg |-> NoRegistry, err |-> ErrTransactionNotStarted, panic |-> FALSE]
    ELSE [reg |-> u.repoRegistry, err |-> NoErr, panic |-> FALSE]

pgUOWMustRepoRegistry(u) ==
    IF u.tx = NoTx
    THEN [reg |-> NoRegistry, err |-> NoErr, panic |-> TRUE]
    ELSE [reg |-> u.repoRegistry, err |-> NoErr, panic |-> FALSE]

\* ------------------------------------------------------------------ the UOW interface
MustRepoRegistry(u) ==
    IF adapter = "stdsql" THEN sqlUOWMustRepoRegistry(u) ELSE pgUOWMustRepoRegistry(u)

Begin(u, t, p, ok) ==
    IF adapter = "stdsql" THEN sqlUOWBegin(u, t, p, ok) ELSE pgUOWBegin(u, t, p, ok)

Commit(u, t, p, ok) ==
    IF adapter = "stdsql" THEN sqlUOWCommit(u, t, p, ok) ELSE pgUOWCommit(u, t, p, ok)

Rollback(u, t, p, ok) ==
    IF adapter = "stdsql" THEN sqlUOWRollback(u, t, p, ok) ELSE pgUOWRollback(u, t, p, ok)

\* ------------------------------------------------------------------ factories
\* Factory.NewUOW yields the set of its possible outcomes [err, uow, acquired].
\* stdsql: builds the object, never fails.
sqlNewUOW == {[err |-> NoErr, uow |-> newSQLUOW, acquired |-> {}]}

\* pgNewUOW handing out any connection of the pool, checked out or not
pgNewUOWAnyConn(heldConns) ==
    {[err |-> NoErr, uow |-> newPgUOW(c), acquired |-> {c}] : c \in Conns}
    \cup {[err |-> AcquireErr, uow |-> NoUOW, acquired |-> {}]}

\* pgxv5: pool.Acquire hands out a free connection, or fails (cancelled or
\* expired context); with no free connection and a live context it blocks.
pgNewUOW(heldConns) ==
    {[err |-> NoErr, uow |-> newPgUOW(c), acquired |-> {c}] : c \in Conns \ heldConns}
    \cup {[err |-> AcquireErr, uow |-> NoUOW, acquired |-> {}]}

NewUOW(heldConns) == IF adapter = "stdsql" THEN sqlNewUOW ELSE pgNewUOW(heldConns)

\* ------------------------------------------------------------------ the action
NoAct == [kind |-> "none", res |-> NilRes, err |-> NoErr, val |-> "none"]

NoRet == [kind |-> "none", res |-> NilRes, err |-> NoErr, val |-> "none"]

Returned(res, err) == [kind |-> "return", res |-> res, err |-> err, val |-> "none"]

Panicked(v) == [kind |-> "panic", res |-> NilRes, err |-> NoErr, val |-> v]

\* What the action handed to RunTxWithResult may do: return any (res, err)
\* or panic.  RunTx wraps its action as  return nil, action(uow).
TxActionWithResult == {Returned(r, e) : r \in Results, e \in {NoErr} \cup ActionErrs}
                      \cup {Panicked(v) : v \in PanicVals}

TxAction == {Returned(NilRes, e) : e \in {NoErr} \cup ActionErrs}
            \cup {Panicked(v) : v \in PanicVals}

ActionOutcomes(a) == IF a = "RunTx" THEN TxAction ELSE TxActionWithResult

\* ------------------------------------------------------------------ RunTxWithResult, deferred revision
\* return nil, err  after a failed NewUOW
deferredNewUOWFailed(err) == Returned(NilRes, err)

\* return nil, err  after a failed Begin
deferredBeginFailed(err) == Returned(NilRes, err)

\* a panic of the action is caught by the deferred function
deferredAfterAction(a) == "finalize"

\* deferredFinalize with the test  err != nil  written  err == nil
deferredFinalizeInverted(a, u, t, p, ok) ==
    IF a.kind = "panic"
    THEN LET r == Rollback(u, t, p, ok)
         IN [ret |-> Panicked(a.val), uow |-> r.uow, txs |-> r.txs,
             released |-> r.released, calls |-> <<"Rollback">>]
    ELSE IF a.err = NoErr
    THEN LET r == Rollback(u, t, p, ok)
         IN [ret |-> Returned(a.res, a.err), uow |-> r.uow, txs |-> r.txs,
             released |-> r.released, calls |-> <<"Rollback">>]
    ELSE LET c == Commit(u, t, p, ok)
         IN [ret |-> Returned(a.res, c.err), uow |-> c.uow, txs |-> c.txs,
             released |-> c.released, calls |-> <<"Commit">>]

\* deferredFinalize calling Commit a second time when the first Commit failed
deferredFinalizeRetryCommit(a, u, t, p, ok) ==
    IF a.kind = "panic"
    THEN LET r == Rollback(u, t, p, ok)
         IN [ret |-> Panicked(a.val), uow |-> r.uow, txs |-> r.txs,
             released |-> r.released, calls |-> <<"Rollback">>]
    ELSE IF a.err # NoErr
    THEN LET r == Rollback(u, t, p, ok)
         IN [ret |-> Returned(a.res, a.err), uow |-> r.uow, txs |-> r.txs,
             released |-> r.released, calls |-> <<"Rollback">>]
    ELSE LET c == Commit(u, t, p, ok)
             d == Commit(c.uow, c.txs, p, TRUE)
         IN IF c.err = NoErr
            THEN [ret |-> Returned(a.res, c.err), uow |-> c.uow, txs |-> c.txs,
                  released |-> c.released, calls |-> <<"Commit">>]
            ELSE [ret |-> Returned(a.res, d.err), uow |-> d.uow, txs |-> d.txs,
                  released |-> c.released \cup d.released,
                  calls |-> <<"Commit", "Commit">>]

\* the deferred function and the return of the named results (res, err)
deferredFinalize(a, u, t, p, ok) ==
    IF a.kind = "panic"
    THEN LET r == Rollback(u, t, p, ok)
         IN [ret |-> Panicked(a.val), uow |-> r.uow, txs |-> r.txs,
             released |-> r.released, calls |-> <<"Rollback">>]
    ELSE IF a.err # NoErr
    THEN LET r == Rollback(u, t, p, ok)
         IN [ret |-> Returned(a.res, a.err), uow |-> r.uow, txs |-> r.txs,
             released |-> r.released, calls |-> <<"Rollback">>]
    ELSE LET c == Commit(u, t, p, ok)
         IN [ret |-> Returned(a.res, c.err), uow |-> c.uow, txs |-> c.txs,
             released |-> c.released, calls |-> <<"Commit">>]

\* ------------------------------------------------------------------ RunTxWithResult, explicit revision
\* explicitNewUOWFailed wrapping the error the way a failed Begin is wrapped
explicitNewUOWFailedWrapped(err) == Returned(NilRes, FailedToStartTransaction(err))

\* return nil, err  after a failed NewUOW
explicitNewUOWFailed(err) == Returned(NilRes, err)

explicitBeginFailed(err) == Returned(NilRes, FailedToStartTransaction(err))

\* no recover: a panic of the action unwinds through the helper at once
explicitAfterAction(a) == IF a.kind = "panic" THEN "done" ELSE "finalize"

\* explicitFinalize with the final  return result, nil  written  return nil, nil
explicitFinalizeNilResult(a, u, t, p, ok) ==
    IF a.err # NoErr
    THEN LET r == Rollback(u, t, p, ok)
         IN [ret |-> IF r.err # NoErr
                     THEN Returned(NilRes, FailedToRollback(Join(a.err, r.err)))
                     ELSE Returned(NilRes, a.err),
             uow |-> r.uow, txs |-> r.txs,
             released |-> r.released, calls |-> <<"Rollback">>]
    ELSE LET c == Commit(u, t, p, ok)
         IN [ret |-> IF c.err # NoErr
                     THEN Returned(NilRes, FailedToCommit(c.err))
                     ELSE Returned(NilRes, NoErr),
             uow |-> c.uow, txs |-> c.txs,
             released |-> c.released, calls |-> <<"Commit">>]

explicitFinalize(a, u, t, p, ok) ==
    IF a.err # NoErr
    THEN LET r == Rollback(u, t, p, ok)
         IN [ret |-> IF r.err # NoErr
                     THEN Returned(NilRes, FailedToRollback(Join(a.err, r.err)))
                     ELSE Returned(NilRes, a.err),
             uow |-> r.uow, txs |-> r.txs,
             released |-> r.released, calls |-> <<"Rollback">>]
    ELSE LET c == Commit(u, t, p, ok)
         IN [ret |-> IF c.err # NoErr
                     THEN Returned(NilRes, FailedToCommit(c.err))
                     ELSE Returned(a.res, NoErr),
             uow |-> c.uow, txs |-> c.txs,
             released |-> c.released, calls |-> <<"Commit">>]

\* ------------------------------------------------------------------ the linked helper
NewUOWFailed(err) ==
    IF helper = "deferred" THEN deferredNewUOWFailed(err) ELSE explicitNewUOWFailed(err)

BeginFailed(err) ==
    IF helper = "deferred" THEN deferredBeginFailed(err) ELSE explicitBeginFailed(err)

AfterAction(a) ==
    IF helper = "deferred" THEN deferredAfterAction(a) ELSE explicitAfterAction(a)

Finalize(a, u, t, p, ok) ==
    IF helper = "deferred" THEN deferredFinalize(a, u, t, p, ok)
                           ELSE explicitFinalize(a, u, t, p, ok)

\* RunTx returning nil whatever RunTxWithResult returned
RunTxDropsError(r) == IF r.kind = "return" THEN Returned(NilRes, NoErr) ELSE r

\* RunTx: _, err := RunTxWithResult(...); return err
RunTx(r) == IF r.kind = "return" THEN Returned(NilRes, r.err) ELSE r

Deliver(a, r) == IF a = "RunTx" THEN RunTx(r) ELSE r

\* ------------------------------------------------------------------ transaction options
NoOptCall == [fn |-> "none", ref |-> 0, arg |-> NilOptions, out |-> NilOptions]

\* sql.IsolationLevel: the named levels of database/sql and a value outside them
SqlLevels == {"LevelDefault", "LevelReadUncommitted", "LevelReadCommitted",
              "LevelWriteCommitted", "LevelRepeatableRead", "LevelSnapshot",
              "LevelSerializable", "LevelLinearizable", "IsolationLevel(42)"}

\* &sql.TxOptions{Isolation: iso, ReadOnly: ro}
Options(iso, ro) == [isNil |-> FALSE, Isolation |-> iso, ReadOnly |-> ro]

AllOptions == {Options(iso, ro) : iso \in SqlLevels, ro \in BOOLEAN}

\* A preset allocates a new object: it yields the heap after the call and
\* the reference it returns.
Alloc(h, o) == [heap |-> Append(h, o), ref |-> Len(h) + 1]

\* DefaultTxOptions returning one package-level object on every call
DefaultTxOptionsShared(h) ==
    IF h = <<>> THEN Alloc(h, Options("LevelReadCommitted", FALSE))
                ELSE [heap |-> h, ref |-> 1]

DefaultTxOptions(h) == Alloc(h, Options("LevelReadCommitted", FALSE))

SerializableTxOptions(h) == Alloc(h, Options("LevelSerializable", FALSE))

ReadOnlyTxOptions(h) == Alloc(h, Options("LevelReadCommitted", TRUE))

PresetNames == {"DefaultTxOptions", "SerializableTxOptions", "ReadOnlyTxOptions"}

Preset(f, h) ==
    CASE f = "DefaultTxOptions" -> DefaultTxOptions(h)
      [] f = "SerializableTxOptions" -> SerializableTxOptions(h)
      [] f = "ReadOnlyTxOptions" -> ReadOnlyTxOptions(h)

\* pgx.TxOptions{}: no isolation level and no access mode named
ZeroPgxTxOptions == [IsoLevel |-> "", AccessMode |-> ""]

mapSQLTxOptionsToPgx(options) ==
    IF options.isNil
    THEN ZeroPgxTxOptions
    ELSE [IsoLevel |->
              CASE options.Isolation = "LevelReadUncommitted" -> "read uncommitted"
                [] options.Isolation = "LevelReadCommitted" -> "read committed"
                [] options.Isolation = "LevelRepeatableRead" -> "repeatable read"
                [] options.Isolation = "LevelSerializable" -> "serializable"
                [] OTHER -> "read committed",
          AccessMode |-> IF options.ReadOnly THEN "read only" ELSE "read write"]

\* ------------------------------------------------------------------ Init
TypeOK ==
    /\ adapter \in Adapters
    /\ helper \in Helpers
    /\ pc \in [Callers -> {"idle", "NewUOW", "Begin", "action", "finalize", "done",
                           "direct", "crashed"}]
    /\ api \in [Callers -> {"RunTx", "RunTxWithResult"}]
    /\ \A p \in Callers :
          /\ uow[p].conn \in {0} \cup Conns
          /\ uow[p].tx = NoTx \/ (uow[p].tx.owner = p /\ uow[p].tx.idx \in 1..Len(txs[p]))
    /\ poolHeld \subseteq Conns
    /\ started \in 0..MaxCalls
    /\ ops \in 0..MaxOps

InitCommon ==
    /\ adapter \in Adapters
    /\ helper \in Helpers
    /\ api = [p \in Callers |-> "RunTxWithResult"]
    /\ uow = [p \in Callers |-> NoUOW]
    /\ act = [p \in Callers |-> NoAct]
    /\ ret = [p \in Callers |-> NoRet]
    /\ log = [p \in Callers |-> <<>>]
    /\ txs = [p \in Callers |-> <<>>]
    /\ poolHeld = {}
    /\ started = 0
    /\ ops = 0
    /\ reg = [p \in Callers |-> NoRegistry]
    /\ optHeap = <<>>
    /\ optLast = NoOptCall

Init == InitCommon /\ pc = [p \in Callers |-> "idle"]

\* ------------------------------------------------------------------ the helper, step by step
\* A caller enters RunTx or RunTxWithResult.
Call(p) ==
    /\ pc[p] \in {"idle", "done"}
    /\ started < MaxCalls
    /\ \E a \in {"RunTx", "RunTxWithResult"} : api' = [api EXCEPT ![p] = a]
    /\ pc' = [pc EXCEPT ![p] = "NewUOW"]
    /\ uow' = [uow EXCEPT ![p] = NoUOW]
    /\ act' = [act EXCEPT ![p] = NoAct]
    /\ ret' = [ret EXCEPT ![p] = NoRet]
    /\ log' = [log EXCEPT ![p] = <<>>]
    /\ txs' = [txs EXCEPT ![p] = <<>>]
    /\ reg' = [reg EXCEPT ![p] = NoRegistry]
    /\ started' = started + 1
    /\ UNCHANGED <<config, poolHeld, ops, optVars>>

\* uow, err := factory.NewUOW(ctx)
HelperNewUOW(p) ==
    /\ pc[p] = "NewUOW"
    /\ \E o \in NewUOW(poolHeld) :
          /\ uow' = [uow EXCEPT ![p] = o.uow]
          /\ poolHeld' = poolHeld \cup o.acquired
          /\ IF o.err # NoErr
             THEN /\ ret' = [ret EXCEPT ![p] = Deliver(api[p], NewUOWFailed(o.err))]
                  /\ pc' = [pc EXCEPT ![p] = "done"]
             ELSE /\ ret' = ret
                  /\ pc' = [pc EXCEPT ![p] = "Begin"]
    /\ log' = [log EXCEPT ![p] = Append(@, "NewUOW")]
    /\ UNCHANGED <<config, api, act, txs, started, ops, reg, optVars>>

\* uow.Begin(ctx, options)
HelperBegin(p) ==
    /\ pc[p] = "Begin"
    /\ \E ok \in BOOLEAN :
          LET b == Begin(uow[p], txs, p, ok)
          IN /\ uow' = [uow EXCEPT ![p] = b.uow]
             /\ txs' = b.txs
             /\ poolHeld' = poolHeld \ b.released
             /\ IF b.panic
                THEN /\ ret' = [ret EXCEPT ![p] = Panicked("nil dereference")]
                     /\ pc' = [pc EXCEPT ![p] = "done"]
                ELSE IF b.err # NoErr
                THEN /\ ret' = [ret EXCEPT ![p] = Deliver(api[p], BeginFailed(b.err))]
                     /\ pc' = [pc EXCEPT ![p] = "done"]
                ELSE /\ ret' = ret
                     /\ pc' = [pc EXCEPT ![p] = "action"]
    /\ log' = [log EXCEPT ![p] = Append(@, "Begin")]
    /\ UNCHANGED <<config, api, act, started, ops, reg, optVars>>

\* res, err = action(uow); the action takes its repositories from
\* uow.MustRepoRegistry() and then returns or panics
HelperAction(p) ==
    /\ pc[p] = "action"
    /\ LET m == MustRepoRegistry(uow[p])
       IN /\ reg' = [reg EXCEPT ![p] = m.reg]
          /\ \E a \in IF m.panic THEN {Panicked("transaction not started")}
                                  ELSE ActionOutcomes(api[p]) :
                /\ act' = [act EXCEPT ![p] = a]
                /\ pc' = [pc EXCEPT ![p] = AfterAction(a)]
                /\ ret' = [ret EXCEPT ![p] = IF AfterAction(a) = "done"
                                             THEN Deliver(api[p], Panicked(a.val)) ELSE @]
    /\ log' = [log EXCEPT ![p] = Append(@, "action")]
    /\ UNCHANGED <<config, api, uow, txs, poolHeld, started, ops, optVars>>

\* Commit or Rollback, and the return
HelperFinalize(p) ==
    /\ pc[p] = "finalize"
    /\ \E ok \in BOOLEAN :
          LET f == Finalize(act[p], uow[p], txs, p, ok)
          IN /\ uow' = [uow EXCEPT ![p] = f.uow]
             /\ txs' = f.txs
             /\ poolHeld' = poolHeld \ f.released
             /\ ret' = [ret EXCEPT ![p] = Deliver(api[p], f.ret)]
             /\ log' = [log EXCEPT ![p] = @ \o f.calls]
    /\ pc' = [pc EXCEPT ![p] = "done"]
    /\ UNCHANGED <<config, api, act, started, ops, reg, optVars>>

Next ==
    \E p \in Callers :
        \/ Call(p)
        \/ HelperNewUOW(p)
        \/ HelperBegin(p)
        \/ HelperAction(p)
        \/ HelperFinalize(p)

Spec == Init /\ [][Next]_vars

\* ------------------------------------------------------------------ the UOW used directly
\* A client that holds a UOW calls its methods in any order.
InitUOW == InitCommon /\ pc = [p \in Callers |-> "direct"]

DirectNewUOW(p) ==
    /\ pc[p] = "direct"
    /\ ~uow[p].made
    /\ ops < MaxOps
    /\ \E o \in NewUOW(poolHeld) :
          /\ uow' = [uow EXCEPT ![p] = o.uow]
          /\ poolHeld' = poolHeld \cup o.acquired
          /\ ret' = [ret EXCEPT ![p] = Returned(NilRes, o.err)]
    /\ log' = [log EXCEPT ![p] = Append(@, "NewUOW")]
    /\ ops' = ops + 1
    /\ UNCHANGED <<config, pc, api, act, txs, started, reg, optVars>>

\* the effect of one method call whose outcome is m
DirectCall(p, name, m) ==
    /\ uow' = [uow EXCEPT ![p] = m.uow]
    /\ txs' = m.txs
    /\ poolHeld' = poolHeld \ m.released
    /\ ret' = [ret EXCEPT ![p] = IF m.panic THEN Panicked("nil dereference")
                                 ELSE Returned(NilRes, m.err)]
    /\ pc' = [pc EXCEPT ![p] = IF m.panic THEN "crashed" ELSE @]
    /\ log' = [log EXCEPT ![p] = Append(@, name)]
    /\ ops' = ops + 1
    /\ UNCHANGED <<config, api, act, started, reg, optVars>>

\* the effect of one access to the registry whose outcome is m
DirectRegistry(p, name, m) ==
    /\ reg' = [reg EXCEPT ![p] = m.reg]
    /\ ret' = [ret EXCEPT ![p] = IF m.panic THEN Panicked("transaction not started")
                                 ELSE Returned(NilRes, m.err)]
    /\ pc' = [pc EXCEPT ![p] = IF m.panic THEN "crashed" ELSE @]
    /\ log' = [log EXCEPT ![p] = Append(@, name)]
    /\ ops' = ops + 1
    /\ UNCHANGED <<config, api, act, uow, txs, poolHeld, started, optVars>>

DirectMustRepoRegistry(p) ==
    /\ pc[p] = "direct" /\ uow[p].made /\ ops < MaxOps
    /\ DirectRegistry(p, "MustRepoRegistry", MustRepoRegistry(uow[p]))

\* RepoRegistry is a method of pgUOW only
DirectRepoRegistry(p) ==
    /\ pc[p] = "direct" /\ uow[p].made /\ ops < MaxOps
    /\ adapter = "pgxv5"
    /\ DirectRegistry(p, "RepoRegistry", pgUOWRepoRegistry(uow[p]))

DirectBegin(p) ==
    /\ pc[p] = "direct" /\ uow[p].made /\ ops < MaxOps
    /\ \E ok \in BOOLEAN : DirectCall(p, "Begin", Begin(uow[p], txs, p, ok))

DirectCommit(p) ==
    /\ pc[p] = "direct" /\ uow[p].made /\ ops < MaxOps
    /\ \E ok \in BOOLEAN : DirectCall(p, "Commit", Commit(uow[p], txs, p, ok))

DirectRollback(p) ==
    /\ pc[p] = "direct" /\ uow[p].made /\ ops < MaxOps
    /\ \E ok \in BOOLEAN : DirectCall(p, "Rollback", Rollback(uow[p], txs, p, ok))

NextUOW ==
    \E p \in Callers :
        \/ DirectNewUOW(p)
        \/ DirectBegin(p)
        \/ DirectCommit(p)
        \/ DirectRollback(p)
        \/ DirectMustRepoRegistry(p)
        \/ DirectRepoRegistry(p)

SpecUOW == InitUOW /\ [][NextUOW]_vars

\* ------------------------------------------------------------------ the options used directly
\* A client calls the presets, changes the objects it got, and has options
\* mapped for the pgx driver.
InitOptions == InitCommon /\ pc = [p \in Callers |-> "idle"]

notOptVars == <<adapter, helper, pc, api, uow, act, ret, log, txs, poolHeld, started,
                ops, reg>>

CallPreset(f) ==
    /\ Len(optHeap) < MaxOpts
    /\ LET r == Preset(f, optHeap)
       IN /\ optHeap' = r.heap
          /\ optLast' = [fn |-> f, ref |-> r.ref, arg |-> NilOptions, out |-> r.heap[r.ref]]
    /\ UNCHANGED notOptVars

\* the client assigns to a field of an object a preset returned
MutateIsolation(i, iso) ==
    /\ i \in 1..Len(optHeap)
    /\ optHeap' = [optHeap EXCEPT ![i].Isolation = iso]
    /\ optLast' = [fn |-> "mutate", ref |-> i, arg |-> optHeap'[i], out |-> NilOptions]
    /\ UNCHANGED notOptVars

MutateReadOnly(i, ro) ==
    /\ i \in 1..Len(optHeap)
    /\ optHeap' = [optHeap EXCEPT ![i].ReadOnly = ro]
    /\ optLast' = [fn |-> "mutate", ref |-> i, arg |-> optHeap'[i], out |-> NilOptions]
    /\ UNCHANGED notOptVars

MapOptions(o) ==
    /\ optLast' = [fn |-> "mapSQLTxOptionsToPgx", ref |-> 0, arg |-> o,
                   out |-> mapSQLTxOptionsToPgx(o)]
    /\ UNCHANGED optHeap
    /\ UNCHANGED notOptVars

NextOptions ==
    \/ \E f \in PresetNames : CallPreset(f)
    \/ \E i \in 1..MaxOpts : \E iso \in MutLevels : MutateIsolation(i, iso)
    \/ \E i \in 1..MaxOpts : \E ro \in BOOLEAN : MutateReadOnly(i, ro)
    \/ \E o \in AllOptions \cup {NilOptions} : MapOptions(o)

SpecOptions == InitOptions /\ [][NextOptions]_vars

\* ------------------------------------------------------------------ observations
Count(sq, names) == Cardinality({i \in 1..Len(sq) : sq[i] \in names})

Last(sq) == sq[Len(sq)]

Done(p) == pc[p] = "done"

\* the current call of p got a UOW and its Begin succeeded
Begun(p) == uow[p].made /\ uow[p].tx # NoTx

\* the native transaction of p's UOW
TxOf(p) == txs[uow[p].tx.owner][uow[p].tx.idx]

\* e holds the cause c in its Err field, in a joined list, or is c itself
RECURSIVE Carries(_, _)
Carries(e, c) ==
    \/ e = c
    \/ /\ e.kind \in {"FailedToRollbackError", "FailedToCommitError",
                      "FailedToStartTransactionError", "wrapError"}
       /\ Carries(e.Err, c)
    \/ /\ e.kind = "join"
       /\ \E i \in 1..Len(e.errs) : Carries(e.errs[i], c)

Finalizers == {"Commit", "Rollback"}

ActionReturned(p) == Done(p) /\ Begun(p) /\ act[p].kind = "return"

\* ------------------------------------------------------------------ properties of the helpers (Spec)

\* C1: once NewUOW and Begin succeeded, a helper call that has returned or
\* propagated a panic has issued exactly one Commit or Rollback on its UOW.
C1_ExactlyOneFinalize ==
    \A p \in Callers :
        Done(p) /\ Begun(p) => Count(log[p], Finalizers) = 1

\* C2: an action that returned (result, nil) is committed with exactly one
\* Commit and no Rollback, and when that Commit succeeded the helper returns
\* the action's result with a nil error.
C2_SuccessCommitsAndReturnsResult ==
    \A p \in Callers :
        ActionReturned(p) /\ act[p].err = NoErr =>
            /\ Count(log[p], {"Commit"}) = 1
            /\ Count(log[p], {"Rollback"}) = 0
            /\ TxOf(p).finals = 1
            /\ TxOf(p).state = "committed" => ret[p] = Returned(act[p].res, NoErr)

C2_Witness ==
    \E p \in Callers :
        /\ ActionReturned(p) /\ act[p].err = NoErr
        /\ api[p] = "RunTxWithResult"
        /\ TxOf(p).state = "committed"
        /\ ret[p] = Returned("r1", NoErr)

\* C3: an action that returned an error is rolled back with exactly one
\* Rollback and no Commit, and when that Rollback succeeded the helper
\* returns the action's own error, not wrapped.
C3_ErrorRollsBackAndIsReturned ==
    \A p \in Callers :
        ActionReturned(p) /\ act[p].err # NoErr =>
            /\ Count(log[p], {"Rollback"}) = 1
            /\ Count(log[p], {"Commit"}) = 0
            /\ TxOf(p).finals = 1
            /\ TxOf(p).state = "rolledback" => ret[p].err = act[p].err

C3_Witness ==
    \E p \in Callers :
        /\ ActionReturned(p) /\ act[p].err \in ActionErrs
        /\ TxOf(p).state = "rolledback"
        /\ ret[p].err = act[p].err

\* C4: when the action returned an error and the Rollback failed too, the
\* helper returns a FailedToRollbackError that carries both the action's
\* error and the rollback error.
C4_RollbackFailureCarriesBoth ==
    \A p \in Callers :
        ActionReturned(p) /\ act[p].err # NoErr /\ TxOf(p).state = "failed" =>
            /\ ret[p].err.kind = "FailedToRollbackError"
            /\ Carries(ret[p].err, act[p].err)
            /\ Carries(ret[p].err, DriverErr("rollback"))

\* C5: when the action succeeded and the Commit failed, the helper returns a
\* FailedToCommitError wrapping the commit error and a nil result.
C5_CommitFailureDiscardsResult ==
    \A p \in Callers :
        ActionReturned(p) /\ act[p].err = NoErr /\ TxOf(p).state = "failed" =>
            ret[p] = Returned(NilRes, FailedToCommit(DriverErr("commit")))

\* C6: when the action panicked, the helper has called Rollback exactly once
\* and Commit never, and the panic that leaves the helper is the action's
\* panic value, whether the Rollback succeeded or failed.
C6_PanicRollsBackAndPropagates ==
    \A p \in Callers :
        Done(p) /\ Begun(p) /\ act[p].kind = "panic" =>
            /\ Count(log[p], {"Rollback"}) = 1
            /\ Count(log[p], {"Commit"}) = 0
            /\ ret[p] = Panicked(act[p].val)

\* C7: when Begin failed, the helper returns a FailedToStartTransactionError
\* wrapping the begin error, and has called neither the action nor Commit
\* nor Rollback.
C7_BeginFailureIsWrapped ==
    \A p \in Callers :
        Done(p) /\ uow[p].made /\ uow[p].tx = NoTx =>
            /\ ret[p].kind = "return"
            /\ ret[p].err.kind = "FailedToStartTransactionError"
            /\ Carries(ret[p].err, DriverErr("begin"))
            /\ log[p] = <<"NewUOW", "Begin">>

\* C8: when Factory.NewUOW failed, the helper returns the acquisition error
\* itself with a nil result, and NewUOW is the only call it made.
C8_AcquireFailureUnchanged ==
    \A p \in Callers :
        Done(p) /\ ~uow[p].made =>
            /\ ret[p] = Returned(NilRes, AcquireErr)
            /\ log[p] = <<"NewUOW">>
            /\ txs[p] = <<>>

C8_Witness ==
    \E p \in Callers :
        /\ Done(p) /\ ~uow[p].made
        /\ adapter = "pgxv5"
        /\ ret[p].err = AcquireErr

\* ------------------------------------------------------------------ properties of the UOW (SpecUOW)

\* C9: however Commit and Rollback are called on a UOW, at most one native
\* commit or rollback call reaches each driver transaction.
C9_AtMostOneNativeFinish ==
    \A p \in Callers : \A i \in 1..Len(txs[p]) : txs[p][i].finals <= 1

\* C10: Commit and Rollback on a UOW whose Begin has not succeeded return
\* ErrTransactionNotStarted and make no native call.
C10_NotStartedIsRejected ==
    [][\A p \in Callers :
          /\ uow[p].made /\ uow[p].tx = NoTx
          /\ log'[p] # log[p]
          /\ Last(log'[p]) \in Finalizers
          => /\ ret'[p] = Returned(NilRes, ErrTransactionNotStarted)
             /\ txs' = txs]_vars

C10_Witness ==
    \E p \in Callers :
        /\ adapter = "pgxv5"
        /\ uow[p].made /\ uow[p].tx = NoTx
        /\ Count(log[p], {"Commit"}) > 0
        /\ Count(log[p], {"Rollback"}) > 0
        /\ Last(log[p]) \in Finalizers
        /\ ret[p].err = ErrTransactionNotStarted

\* caller p has just made one of the named calls on its UOW
Stepped(p, names) == log'[p] # log[p] /\ Last(log'[p]) \in names

C12_ConnReleasedAfterFinish ==
    [][\A p \in Callers :
          /\ adapter = "pgxv5"
          /\ Stepped(p, Finalizers)
          /\ uow[p].tx # NoTx
          /\ TxOf(p).state = "open"
          => /\ uow[p].conn \in poolHeld
             /\ uow[p].conn \notin poolHeld'
             /\ ~uow'[p].held]_vars

C12_Witness ==
    \E p \in Callers :
        /\ adapter = "pgxv5"
        /\ Begun(p)
        /\ Last(log[p]) = "Commit"
        /\ TxOf(p).state = "failed" /\ TxOf(p).finals = 1
        /\ uow[p].conn \notin poolHeld

C18_BeginOnActiveIsRejected ==
    [][\A p \in Callers :
          /\ Stepped(p, {"Begin"})
          /\ uow[p].tx # NoTx
          /\ TxOf(p).state = "open"
          => /\ ret'[p].kind = "return"
             /\ ret'[p].err # NoErr
             /\ uow'[p].tx = uow[p].tx
             /\ uow'[p].repoRegistry = uow[p].repoRegistry]_vars

\* ------------------------------------------------------------------ concurrent helper calls (Spec)
\* the native transactions of p as the driver sees them
TxStates(p) == [i \in 1..Len(txs[p]) |-> <<txs[p][i].state, txs[p][i].finals>>]

\* each caller has its own connection and its own transaction handle, and
\* only the caller that began a transaction has committed or rolled it back
OwnResources ==
    \A p \in Callers :
        /\ uow[p].tx.owner \in {0, p}
        /\ \A i \in 1..Len(txs[p]) : txs[p][i].by \subseteq {p}
        /\ \A q \in Callers \ {p} :
              uow[p].held /\ uow[q].held => uow[p].conn # uow[q].conn

\* a step of another caller leaves everything of caller p as it was
NoInterference ==
    \A p \in Callers :
        pc'[p] = pc[p] /\ log'[p] = log[p] =>
            /\ uow'[p] = uow[p] /\ txs'[p] = txs[p]
            /\ act'[p] = act[p] /\ ret'[p] = ret[p] /\ reg'[p] = reg[p]

\* what a call returned is a function of its own calls, action and driver outcomes
OwnOutcome ==
    \A p, q \in Callers :
        /\ Done(p) /\ Done(q)
        /\ api[p] = api[q] /\ log[p] = log[q] /\ act[p] = act[q]
        /\ TxStates(p) = TxStates(q)
        => ret[p] = ret[q]

Outcomes(p) == <<uow[p].made, Begun(p), act[p].kind, act[p].err, act[p].val, TxStates(p)>>

\* C16: RunTx behaves as RunTxWithResult on an action returning
\* (nil, action's error): with the same outcomes of NewUOW, Begin, the action,
\* Commit and Rollback, both make the same sequence of factory and UOW calls
\* and RunTx returns exactly the error RunTxWithResult returns (and
\* propagates the same panic).
C16_RunTxIsRunTxWithResult ==
    \A p, q \in Callers :
        /\ Done(p) /\ Done(q)
        /\ api[p] = "RunTx" /\ api[q] = "RunTxWithResult"
        /\ act[q].res = NilRes
        /\ Outcomes(p) = Outcomes(q)
        => /\ log[p] = log[q]
           /\ ret[p].kind = ret[q].kind
           /\ ret[p].err = ret[q].err
           /\ ret[p].val = ret[q].val

C16_Witness ==
    \E p, q \in Callers :
        /\ Done(p) /\ Done(q)
        /\ api[p] = "RunTx" /\ api[q] = "RunTxWithResult"
        /\ act[q].res = NilRes
        /\ Outcomes(p) = Outcomes(q)
        /\ act[p].kind = "return" /\ act[p].err # NoErr
        /\ TxOf(p).state = "failed"
        /\ ret[p].err # NoErr /\ ret[p].err = ret[q].err
        /\ log[p] = <<"NewUOW", "Begin", "action", "Rollback">>

\* ------------------------------------------------------------------ the pool under the helpers (Spec)
\* helper calls that hold a UOW and have not returned yet
InProgress == {p \in Callers : pc[p] \in {"Begin", "action", "finalize"}}

\* C19: with the pgxv5 factory, a helper call whose NewUOW succeeded has given
\* its connection back to the pool when it returns or propagates a panic, on
\* every path, so the connections checked out of the pool are as many as the
\* helper calls in progress.
C19_ConnReleasedOnEveryPath ==
    adapter = "pgxv5" =>
        /\ \A p \in Callers : Done(p) /\ uow[p].made => uow[p].conn \notin poolHeld
        /\ Cardinality(poolHeld) = Cardinality(InProgress)

\* ------------------------------------------------------------------ termination of the helpers (FairSpec)
\* The context is never cancelled: pool.Acquire does not fail, it waits for
\* a free connection.  Every action returns.  Every native call returns.
LiveNewUOW(p) == HelperNewUOW(p) /\ uow'[p].made

LiveAction(p) == HelperAction(p) /\ act'[p].kind = "return"

NextLive ==
    \E p \in Callers :
        \/ Call(p)
        \/ LiveNewUOW(p)
        \/ HelperBegin(p)
        \/ LiveAction(p)
        \/ HelperFinalize(p)

\* a caller that can take a step of the helper eventually takes it; a caller
\* waiting for a connection gets one if connections keep becoming free
Fairness ==
    \A p \in Callers :
        /\ SF_vars(LiveNewUOW(p))
        /\ WF_vars(HelperBegin(p))
        /\ WF_vars(LiveAction(p))
        /\ WF_vars(HelperFinalize(p))

FairSpec == Init /\ [][NextLive]_vars /\ Fairness

\* C20: with a pool shared by concurrent helper calls, a context that is
\* never cancelled, actions that return and native calls that return, every
\* helper call eventually returns under fair scheduling.
C20_EveryCallReturns ==
    \A p \in Callers : (pc[p] = "NewUOW") ~> Done(p)

\* ------------------------------------------------------------------ properties of the options (SpecOptions)
\* the call just made on the options
OptCalled(names) == optLast'.fn \in names /\ (optLast' # optLast \/ optHeap' # optHeap)

\* the native level of the same name, read committed for every other input
NativeLevel(options) ==
    IF options.isNil THEN "read committed"
    ELSE CASE options.Isolation = "LevelReadUncommitted" -> "read uncommitted"
           [] options.Isolation = "LevelRepeatableRead" -> "repeatable read"
           [] options.Isolation = "LevelSerializable" -> "serializable"
           [] OTHER -> "read committed"

\* C15: mapSQLTxOptionsToPgx is defined on every input, nil options and
\* levels outside the four named ones included: the four named levels map to
\* the native level of the same name, every other or unspecified input to
\* native read committed, ReadOnly true to read-only access and ReadOnly
\* false to read-write access.
C15_MappingIsTotalWithFallback ==
    optLast.fn = "mapSQLTxOptionsToPgx" =>
        /\ optLast.out.IsoLevel = NativeLevel(optLast.arg)
        /\ ~optLast.arg.isNil =>
              optLast.out.AccessMode = IF optLast.arg.ReadOnly THEN "read only"
                                                               ELSE "read write"

\* the value each preset is documented to yield
PresetValue(f) ==
    CASE f = "DefaultTxOptions" -> Options("LevelReadCommitted", FALSE)
      [] f = "SerializableTxOptions" -> Options("LevelSerializable", FALSE)
      [] f = "ReadOnlyTxOptions" -> Options("LevelReadCommitted", TRUE)

\* C17: every call of a preset yields the preset's value, whatever was
\* called before and however an object returned earlier was changed, and
\* leaves the objects returned earlier as they are.
C17_PresetsAreConstant ==
    [][OptCalled(PresetNames) =>
          /\ optLast'.out = PresetValue(optLast'.fn)
          /\ optLast'.ref \notin 1..Len(optHeap)
          /\ \A i \in 1..Len(optHeap) : optHeap'[i] = optHeap[i]]_vars

C17_Witness ==
    /\ optLast.fn = "DefaultTxOptions"
    /\ optLast.ref = 2
    /\ optHeap[1] = Options("LevelSnapshot", TRUE)
    /\ optHeap[2] = Options("LevelReadCommitted", FALSE)
    /\ optLast.out = optHeap[2]

\* ------------------------------------------------------------------ rejected calls (SpecUOW)
\* C21: a Commit or Rollback that is rejected with ErrTransactionNotStarted
\* changes nothing: the transaction handle, the registry and the checkout of
\* the connection are as before the call, so that a later Begin and Commit
\* on the same UOW work on the same connection, still checked out.
C21_RejectedFinishChangesNothing ==
    [][\A p \in Callers :
          Stepped(p, Finalizers) /\ ret'[p] = Returned(NilRes, ErrTransactionNotStarted)
          => /\ uow'[p] = uow[p]
             /\ poolHeld' = poolHeld
             /\ txs' = txs]_vars

\* ------------------------------------------------------------------ order of the collaborator calls (Spec)
IsPrefix(a, b) == Len(a) <= Len(b) /\ a = SubSeq(b, 1, Len(a))

\* the sequences of collaborator calls a helper call may make in full
CallOrders == {<<"NewUOW", "Begin", "action", f>> : f \in Finalizers}

\* C22: within one helper call the collaborators are called in the order
\* NewUOW, Begin, action, then Commit or Rollback, each at most once: Begin
\* only after NewUOW succeeded, the action only after Begin succeeded, Commit
\* or Rollback only after the action returned or panicked; a failure of
\* NewUOW or of Begin ends the call at once.
C22_CallsInOrderNoRetry ==
    \A p \in Callers :
        /\ \E o \in CallOrders : IsPrefix(log[p], o)
        /\ Count(log[p], {"Begin"}) > 0 => uow[p].made
        /\ Count(log[p], {"action"}) > 0 => Begun(p)
        /\ Count(log[p], Finalizers) > 0 => act[p].kind \in {"return", "panic"}
        /\ Count(log[p], {"NewUOW"}) > 0 /\ ~uow[p].made
              => Done(p) /\ log[p] = <<"NewUOW">>
        /\ Count(log[p], {"Begin"}) > 0 /\ ~Begun(p)
              => Done(p) /\ log[p] = <<"NewUOW", "Begin">>

C22_Witness ==
    \E p, q \in Callers :
        /\ Done(p) /\ Done(q)
        /\ log[p] = <<"NewUOW", "Begin", "action", "Rollback">>
        /\ act[p].kind = "panic"
        /\ log[q] = <<"NewUOW", "Begin">>
        /\ uow[q].made /\ ~Begun(q)

====
